---------------------------- MODULE Spec2Model ----------------------------
(***************************************************************************)
(* Model of PAL3patch's growable byte vector (src/PAL3patch/src/           *)
(* bytevector.c).                                                          *)
(*                                                                         *)
(* A struct bvec is three pointers (begin, end, capacity) into one heap    *)
(* block.  A pointer is modelled as [blk, off]: the heap block it points   *)
(* into (0 for NULL) and the byte offset inside it.  The C heap is a       *)
(* function from block addresses to [live, mem].  size_t is W bits wide.   *)
(*                                                                         *)
(* Every C function is an operator from a world (the buffers, the heap,    *)
(* the abort message, the undefined-behaviour flag) to the SET of worlds   *)
(* it can end in: the allocator chooses the address, may fail, and answers  *)
(* a zero-size request either with NULL or with a unique pointer.          *)
(*                                                                         *)
(* Memory the program has not written is indeterminate.  So are, to the    *)
(* model, the bytes of a block outside [begin, end): at the end of every   *)
(* call they are forgotten (Indet), and a byte that a call brings inside   *)
(* [begin, end) without writing it takes any value.  The bytes the code    *)
(* would leave there are among these values.                               *)
(*                                                                         *)
(* Spec is the program of the byte-level interface on two buffers.         *)
(* StrSpec is the program of the string and printf functions on one        *)
(* buffer, used either as a char string or as a wchar_t string.            *)
(* UtfSpec is the program of the UTF-8 / UTF-16 conversions of wstr.c:     *)
(* cs2cs_alloc from UTF-8 to UTF-8, which decodes and encodes again.       *)
(***************************************************************************)
EXTENDS Integers, Sequences, FiniteSets, TLC

\* ---- bounds of the model ----
\* Width of size_t in bits: sizes are computed modulo 2^W.
W == 3
\* Largest block the allocator serves; a larger request returns NULL.
MaxAlloc == 4
\* Number of block addresses of the heap.
NAddr == 2

\* ---- program constants ----
\* "please set these values to 1 if you want to test realloc"
BVEC_DEFAULT_CAPACITY == 1

Word == 2 ^ W
Size_t == 0 .. (Word - 1)
Bufs == {1, 2}
Addrs == 1 .. NAddr
Byte == {0, 1}
\* a byte of no determined value: "if bigger, new space is not initialized"
Indet == -1

VARIABLES
    v,      \* v[i]: the struct bvec number i
    heap,   \* heap[a]: the block at address a
    live,   \* live[i]: v[i] is constructed and not yet destroyed
    abort,  \* the message of fail(), "" while the process runs
    ub,     \* the undefined behaviour that happened, "" if none
    last,   \* the call that has just returned, while the caller looks at
            \* its result (as bvec_selftest does after each call)
    pre,    \* the buffers and the heap as they were when that call began
    conv    \* the activation of cs2cs_alloc: where it is, and its strings

vars == <<v, heap, live, abort, ub, last, pre, conv>>

\* ---- pointers ----
NULL == [blk |-> 0, off |-> 0]
PTRADD(p, n) == [blk |-> p.blk, off |-> (p.off + n) % Word]
PTRSUB(a, b) == (a.off + Word - b.off) % Word

\* ---- worlds ----
World == [v |-> v, heap |-> heap, abort |-> abort, ub |-> ub]
stopped(w) == w.abort # "" \/ w.ub # ""
\* the sequential composition "S; F": F runs in every world S ends in,
\* unless the process has aborted there
Then(S, F(_)) == UNION { IF stopped(s) THEN {s} ELSE F(s) : s \in S }
fail(w, message) == [w EXCEPT !.abort = message]
undefined(w, what) == [w EXCEPT !.ub = what]
\* bvec_assert(expr, message); rest
bvec_assert(w, expr, message, Rest(_)) ==
    IF expr THEN Rest(w) ELSE {fail(w, message)}

\* ---- the C heap ----
DeadBlock == [live |-> FALSE, mem |-> <<>>]
FreeAddrs(w) == {a \in Addrs : ~w.heap[a].live}
ValidBlock(w, p) == p.blk \in Addrs /\ p.off = 0 /\ w.heap[p.blk].live
Fresh(n) == [k \in 1 .. n |-> Indet]

\* free(p)
free(w, p) ==
    IF p = NULL THEN {w}
    ELSE IF ValidBlock(w, p) THEN {[w EXCEPT !.heap[p.blk] = DeadBlock]}
    ELSE {undefined(w, "invalid free")}

\* the block contents after realloc to n bytes: the old bytes up to the
\* smaller of both sizes, then indeterminate bytes
Resized(old, n) ==
    IF n <= Len(old) THEN {SubSeq(old, 1, n)}
    ELSE {old \o Fresh(n - Len(old))}

\* realloc(p, n): the set of [w, ret]
realloc(w, p, n) ==
    LET oom == {[w |-> w, ret |-> NULL]}
        old == IF p = NULL THEN <<>> ELSE w.heap[p.blk].mem
        freed == IF p = NULL THEN w ELSE [w EXCEPT !.heap[p.blk] = DeadBlock]
        \* the new block is the old one in place or any free address
        targets == FreeAddrs(w) \cup (IF p = NULL THEN {} ELSE {p.blk})
        placed == {[w |-> [freed EXCEPT !.heap[a] = [live |-> TRUE, mem |-> m]],
                    ret |-> [blk |-> a, off |-> 0]]
                     : a \in targets, m \in Resized(old, n)}
    IN  IF p # NULL /\ ~ValidBlock(w, p) THEN {[w |-> undefined(w, "invalid realloc"), ret |-> NULL]}
        ELSE IF n = 0 THEN
            \* a zero-size request: NULL (the old block released), or a
            \* unique pointer to a block of no bytes
            {[w |-> freed, ret |-> NULL]} \cup placed
        ELSE IF n > MaxAlloc THEN oom
        ELSE oom \cup placed

\* ---- basic interface ----
bvec_bsize(b) == PTRSUB(b.end, b.begin)
bvec_bcapacity(b) == PTRSUB(b.capacity, b.begin)
bvec_bdata(b) == b.begin
bvec_empty(b) == bvec_bsize(b) = 0

bvec_ctor(w, i) ==
    {[w EXCEPT !.v[i] = [begin |-> NULL, end |-> NULL, capacity |-> NULL]]}

\* mutant: the allocation is not released
bvec_dtor_leak(w, i) == {w}

bvec_dtor(w, i) == free(w, w.v[i].begin)

\* mutant: clear releases the allocation as well
bvec_clear_free(w, i) == Then(free(w, w.v[i].begin), LAMBDA s : bvec_ctor(s, i))

bvec_clear(w, i) == {[w EXCEPT !.v[i].end = w.v[i].begin]}

bvec_fclear(w, i) == Then(bvec_dtor(w, i), LAMBDA s : bvec_ctor(s, i))

bvec_brealloc(w, i, capacity) ==
    LET size == bvec_bsize(w.v[i])
    IN  UNION { IF stopped(r.w) THEN {r.w}
                ELSE bvec_assert(r.w, r.ret # NULL \/ capacity = 0, "out of memory",
                       LAMBDA s : {[s EXCEPT !.v[i] =
                                      [begin |-> r.ret,
                                       end |-> PTRADD(r.ret, size),
                                       capacity |-> PTRADD(r.ret, capacity)]]})
                : r \in realloc(w, w.v[i].begin, capacity) }


\* mutant: the loop stops while the half would still hold size bytes
RECURSIVE ShrinkLoop_strict(_, _)
ShrinkLoop_strict(capacity, size) ==
    IF capacity # 0 /\ capacity \div 2 > size
    THEN ShrinkLoop_strict(capacity \div 2, size)
    ELSE capacity

\* the loop of bvec_shrink: halve while the half still holds size bytes
RECURSIVE ShrinkLoop(_, _)
ShrinkLoop(capacity, size) ==
    IF capacity # 0 /\ capacity \div 2 >= size
    THEN ShrinkLoop(capacity \div 2, size)
    ELSE capacity

bvec_shrink(w, i) ==
    LET size == bvec_bsize(w.v[i])
        capacity == bvec_bcapacity(w.v[i])
    IN  bvec_brealloc(w, i, ShrinkLoop(capacity, size))

\* mutant: the capacity is doubled once, not until it suffices
ReserveLoop_once(new_capacity, size) ==
    IF new_capacity < size
    THEN IF (new_capacity * 2) % Word > new_capacity
         THEN (new_capacity * 2) % Word
         ELSE -1
    ELSE new_capacity

\* the loop of bvec_breserve: double until new_capacity >= size; -1 when
\* bvec_assert(new_capacity * 2 > new_capacity) fails
RECURSIVE ReserveLoop(_, _)
ReserveLoop(new_capacity, size) ==
    IF new_capacity < size
    THEN IF (new_capacity * 2) % Word > new_capacity
         THEN ReserveLoop((new_capacity * 2) % Word, size)
         ELSE -1
    ELSE new_capacity

\* mutant: reallocates also when the capacity already suffices
bvec_breserve_always(w, i, size) ==
    LET old_capacity == bvec_bcapacity(w.v[i])
        new_capacity == ReserveLoop(IF old_capacity # 0 THEN old_capacity
                                    ELSE BVEC_DEFAULT_CAPACITY, size)
    IN  bvec_assert(w, new_capacity # -1, "integer overflow",
            LAMBDA s : IF new_capacity >= old_capacity
                       THEN bvec_brealloc(s, i, new_capacity)
                       ELSE {s})

bvec_breserve(w, i, size) ==
    LET old_capacity == bvec_bcapacity(w.v[i])
        new_capacity == ReserveLoop(IF old_capacity # 0 THEN old_capacity
                                    ELSE BVEC_DEFAULT_CAPACITY, size)
    IN  bvec_assert(w, new_capacity # -1, "integer overflow",
            LAMBDA s : IF new_capacity > old_capacity
                       THEN bvec_brealloc(s, i, new_capacity)
                       ELSE {s})

\* mutant: the end pointer is moved without reserving the capacity
bvec_bresize_noreserve(w, i, size) ==
    {[w EXCEPT !.v[i].end = PTRADD(w.v[i].begin, size)]}

bvec_bresize(w, i, size) ==
    LET old_size == bvec_bsize(w.v[i])
    IN  Then(IF size > old_size THEN bvec_breserve(w, i, size) ELSE {w},
             LAMBDA s : {[s EXCEPT !.v[i].end = PTRADD(s.v[i].begin, size)]})

\* ---- memory the caller hands in ----
\* a const void *: NULL, bytes of the caller's own, or a pointer into the heap
NullData == [kind |-> "null"]
Lit(bytes) == [kind |-> "lit", bytes |-> bytes]
Ptr(p) == [kind |-> "ptr", p |-> p]
\* whether size bytes can be read at data
Readable(w, data, size) ==
    CASE data.kind = "null" -> FALSE
      [] data.kind = "lit" -> size <= Len(data.bytes)
      [] data.kind = "ptr" -> /\ data.p.blk \in Addrs
                              /\ w.heap[data.p.blk].live
                              /\ data.p.off + size <= Len(w.heap[data.p.blk].mem)
ReadBytes(w, data, size) ==
    IF data.kind = "lit" THEN SubSeq(data.bytes, 1, size)
    ELSE SubSeq(w.heap[data.p.blk].mem, data.p.off + 1, data.p.off + size)

\* memcpy(dst, data, size), size > 0
memcpy(w, dst, data, size) ==
    IF /\ Readable(w, data, size)
       /\ dst.blk \in Addrs
       /\ w.heap[dst.blk].live
       /\ dst.off + size <= Len(w.heap[dst.blk].mem)
    THEN LET src == ReadBytes(w, data, size)
             old == w.heap[dst.blk].mem
         IN  {[w EXCEPT !.heap[dst.blk].mem =
                  [k \in 1 .. Len(old) |->
                      IF k > dst.off /\ k <= dst.off + size
                      THEN src[k - dst.off] ELSE old[k]]]}
    ELSE {undefined(w, "invalid access")}

\* mutant: the sum old_size + size is not checked for wrapping
bvec_bpush_nocheck(w, i, data, size) ==
    IF size # 0
    THEN LET old_size == bvec_bsize(w.v[i])
             new_size == (old_size + size) % Word
         IN  Then(bvec_bresize(w, i, new_size),
                  LAMBDA t : memcpy(t, PTRADD(t.v[i].begin, old_size), data, size))
    ELSE {w}

\* mutant: the bytes are copied to the start of the buffer
bvec_bpush_atbegin(w, i, data, size) ==
    IF size # 0
    THEN LET old_size == bvec_bsize(w.v[i])
             new_size == (old_size + size) % Word
         IN  bvec_assert(w, new_size > old_size, "interger overflow",
                 LAMBDA s : Then(bvec_bresize(s, i, new_size),
                     LAMBDA t : memcpy(t, t.v[i].begin, data, size)))
    ELSE {w}

bvec_bpush(w, i, data, size) ==
    IF size # 0
    THEN LET old_size == bvec_bsize(w.v[i])
             new_size == (old_size + size) % Word
         IN  bvec_assert(w, new_size > old_size, "interger overflow",
                 LAMBDA s : Then(bvec_bresize(s, i, new_size),
                     LAMBDA t : memcpy(t, PTRADD(t.v[i].begin, old_size), data, size)))
    ELSE {w}

bvec_vpush(w, dst, src) ==
    bvec_bpush(w, dst, Ptr(bvec_bdata(w.v[src])), bvec_bsize(w.v[src]))

\* mutant: the difference old_size - size is not checked for wrapping
bvec_bpop_nocheck(w, i, size) ==
    IF size # 0
    THEN LET old_size == bvec_bsize(w.v[i])
             new_size == (old_size + Word - size) % Word
         IN  bvec_bresize(w, i, new_size)
    ELSE {w}

bvec_bpop(w, i, size) ==
    IF size # 0
    THEN LET old_size == bvec_bsize(w.v[i])
             new_size == (old_size + Word - size) % Word
         IN  bvec_assert(w, new_size < old_size, "interger underflow",
                 LAMBDA s : bvec_bresize(s, i, new_size))
    ELSE {w}

\* mutant: the last byte of the data is not copied
bvec_bctor_short(w, i, data, size) ==
    Then(bvec_ctor(w, i),
         LAMBDA s : bvec_bpush(s, i, data, IF size = 0 THEN 0 ELSE size - 1))

bvec_bctor(w, i, data, size) ==
    Then(bvec_ctor(w, i), LAMBDA s : bvec_bpush(s, i, data, size))

bvec_vctor(w, i, src) ==
    Then(bvec_ctor(w, i), LAMBDA s : bvec_vpush(s, i, src))

\* mutant: the copy takes the source's pointers instead of its bytes
bvec_copy_shallow(w, dst, src) ==
    IF dst # src
    THEN Then(bvec_dtor(w, dst), LAMBDA s : {[s EXCEPT !.v[dst] = s.v[src]]})
    ELSE {w}

bvec_copy(w, dst, src) ==
    IF dst # src
    THEN Then(bvec_dtor(w, dst), LAMBDA s : bvec_vctor(s, dst, src))
    ELSE {w}

\* mutant: the source keeps its pointers after the move
bvec_move_keepsrc(w, dst, src) ==
    IF dst # src
    THEN Then(bvec_dtor(w, dst), LAMBDA s : {[s EXCEPT !.v[dst] = s.v[src]]})
    ELSE {w}

bvec_move(w, dst, src) ==
    IF dst # src
    THEN Then(bvec_dtor(w, dst),
              LAMBDA s : bvec_ctor([s EXCEPT !.v[dst] = s.v[src]], src))
    ELSE {w}

\* mutant: a is overwritten before it is saved
bvec_swap_nosave(w, a, b) ==
    {[w EXCEPT !.v = [[w.v EXCEPT ![a] = w.v[b]] EXCEPT ![b] = w.v[b]]]}

bvec_swap(w, a, b) ==
    LET t == w.v[a]
    IN  {[w EXCEPT !.v = [[w.v EXCEPT ![a] = w.v[b]] EXCEPT ![b] = t]]}

\* ---- typed view (bytevector.h): the bytes as an array of elements ----
\* An element type T is given by sizeof(T); an element is a sequence of T
\* bytes.  The string functions below model both the char function and its
\* wchar_t twin, which differ in the element type only.
sizeof_char == 1
sizeof_wchar_t == 2
Zero(T) == [k \in 1 .. T |-> 0]

bvec_tsize(b, T) == bvec_bsize(b) \div T
bvec_tdata(b) == bvec_bdata(b)
bvec_tresize(w, i, n, T) == bvec_bresize(w, i, (n * T) % Word)
bvec_tpush(w, i, data, n, T) == bvec_bpush(w, i, data, (n * T) % Word)
bvec_tctor(w, i, data, n, T) == bvec_bctor(w, i, data, (n * T) % Word)
bvec_tpopback(w, i, T) == bvec_bpop(w, i, T)
\* the element before end, <<>> if it cannot be read
bvec_tback(w, i, T) ==
    LET b == w.v[i]
        size == bvec_bsize(b)
    IN  IF /\ ValidBlock(w, b.begin) /\ size >= T
           /\ size <= Len(w.heap[b.begin.blk].mem)
        THEN SubSeq(w.heap[b.begin.blk].mem, size - T + 1, size)
        ELSE <<>>

\* ---- C strings ----
\* the bytes that can be read from data on
Avail(w, data) ==
    CASE data.kind = "null" -> <<>>
      [] data.kind = "lit" -> data.bytes
      [] data.kind = "ptr" ->
            IF data.p.blk \in Addrs /\ w.heap[data.p.blk].live
               /\ data.p.off <= Len(w.heap[data.p.blk].mem)
            THEN SubSeq(w.heap[data.p.blk].mem, data.p.off + 1,
                        Len(w.heap[data.p.blk].mem))
            ELSE <<>>
Elem(bytes, k, T) == SubSeq(bytes, k * T + 1, k * T + T)
\* for (l = 0; l < n && str[l]; l++): the count, or -1 when the scan leaves
\* the bytes that can be read or meets a byte of no determined value
RECURSIVE ScanLen(_, _, _, _)
ScanLen(bytes, l, n, T) ==
    IF l >= n THEN l
    ELSE IF (l + 1) * T > Len(bytes) THEN -1
    ELSE IF \E k \in 1 .. T : Elem(bytes, l, T)[k] = Indet THEN -1
    ELSE IF Elem(bytes, l, T) = Zero(T) THEN l
    ELSE ScanLen(bytes, l + 1, n, T)
\* strlen / wcslen
strlen(w, data, T) == ScanLen(Avail(w, data), 0, Word, T)

\* ---- high-level interface (strings) ----
\* bvec_push_char / bvec_push_wchar: val is the element's bytes
bvec_push_char(w, i, val, T) == bvec_bpush(w, i, Lit(val), T)

\* whether the buffer is not empty and its last element is the terminator
EndsWithZero(w, i, T) == ~bvec_empty(w.v[i]) /\ bvec_tback(w, i, T) = Zero(T)
\* bvec_tback on a buffer that has no whole element to read
BadBack(w, i, T) == ~bvec_empty(w.v[i]) /\ bvec_tback(w, i, T) = <<>>

\* bvec_strctor / bvec_wcsctor
bvec_strctor(w, i, str, T) ==
    LET l == strlen(w, str, T)
    IN  IF l = -1 THEN {undefined(w, "invalid access")}
        ELSE bvec_tctor(w, i, str, l + 1, T)

\* mutant: the terminator is appended whatever the last element is
bvec_getstr_always(w, i, T) == bvec_push_char(w, i, Zero(T), T)

\* bvec_getstr / bvec_getwcs; the pointer returned is bvec_tdata(v)
bvec_getstr(w, i, T) ==
    IF BadBack(w, i, T) THEN {undefined(w, "invalid access")}
    ELSE IF bvec_empty(w.v[i]) \/ bvec_tback(w, i, T) # Zero(T)
    THEN bvec_push_char(w, i, Zero(T), T)
    ELSE {w}

\* mutant: the size is set to the string's length, without its terminator
bvec_strshrink_noterm(w, i, T) ==
    LET l == strlen(w, Ptr(bvec_tdata(w.v[i])), T)
    IN  IF l = -1 THEN {undefined(w, "invalid access")}
        ELSE Then(bvec_tresize(w, i, l, T), LAMBDA s : bvec_shrink(s, i))

\* bvec_strshrink / bvec_wcsshrink
bvec_strshrink(w, i, T) ==
    LET l == strlen(w, Ptr(bvec_tdata(w.v[i])), T)
    IN  IF l = -1 THEN {undefined(w, "invalid access")}
        ELSE Then(bvec_tresize(w, i, l + 1, T), LAMBDA s : bvec_shrink(s, i))

\* if (!bvec_empty(v) && bvec_tback(v, char) == 0) bvec_tpopback(v, char)
DropTerminator(w, i, T) ==
    IF BadBack(w, i, T) THEN {undefined(w, "invalid access")}
    ELSE IF EndsWithZero(w, i, T) THEN bvec_tpopback(w, i, T)
    ELSE {w}

\* mutant: the terminator the buffer ends with is kept
bvec_strcat_keepzero(w, i, str, T) ==
    LET l == strlen(w, str, T)
    IN  IF l = -1 THEN {undefined(w, "invalid access")}
        ELSE bvec_tpush(w, i, str, l + 1, T)

\* bvec_strcat / bvec_wcscat
bvec_strcat(w, i, str, T) ==
    Then(DropTerminator(w, i, T),
         LAMBDA s : LET l == strlen(s, str, T)
                    IN  IF l = -1 THEN {undefined(s, "invalid access")}
                        ELSE bvec_tpush(s, i, str, l + 1, T))

\* mutant: n elements are copied whatever the length of str
bvec_strncat_nostop(w, i, str, n, T) ==
    Then(DropTerminator(w, i, T),
         LAMBDA s : Then(bvec_tpush(s, i, str, n, T),
                         LAMBDA t : bvec_push_char(t, i, Zero(T), T)))

\* bvec_strncat / bvec_wcsncat
bvec_strncat(w, i, str, n, T) ==
    Then(DropTerminator(w, i, T),
         LAMBDA s : LET l == ScanLen(Avail(s, str), 0, n, T)
                    IN  IF l = -1 THEN {undefined(s, "invalid access")}
                        ELSE Then(bvec_tpush(s, i, str, l, T),
                                  LAMBDA t : bvec_push_char(t, i, Zero(T), T)))

\* bvec_strpushback / bvec_wcspushback: c is the element's bytes
bvec_strpushback(w, i, c, T) == bvec_strcat(w, i, Lit(c \o Zero(T)), T)

\* ---- high-level interface (printf) ----
\* "please set these values to 1 if you want to test realloc"
BVEC_DEFAULT_PRINTF_BUFSIZE == 1
\* no run of the loop of bvec_vprintf doubles more often than size_t has bits
MaxDoublings == W + 1

\* the store of n elements at dst, nothing for n = 0
Store(w, dst, bytes, n, T) ==
    IF n = 0 THEN {w} ELSE memcpy(w, dst, Lit(bytes), n * T)

\* vsnprintf(buf, bufsize, fmt, aq), text the elements fmt and the arguments
\* render to.  A conforming vsnprintf stores at most bufsize - 1 elements
\* and a terminator; the "buggy snprintf implementations" store up to
\* bufsize elements and a terminator only if it still fits.
vsnprintf(w, buf, bufsize, text, T) ==
    LET L == Len(text) \div T
        fit == IF L < bufsize THEN L ELSE IF bufsize = 0 THEN 0 ELSE bufsize - 1
        conforming == IF bufsize = 0 THEN {w}
                      ELSE Store(w, buf, SubSeq(text, 1, fit * T) \o Zero(T), fit + 1, T)
        buggy == IF L < bufsize
                 THEN Store(w, buf, text \o Zero(T), L + 1, T)
                 ELSE Store(w, buf, SubSeq(text, 1, bufsize * T), bufsize, T)
    IN  conforming \cup buggy

\* mutant: a text that fills the buffer to its last element is taken to fit
RECURSIVE VprintfLoop_offbyone(_, _, _, _, _)
VprintfLoop_offbyone(w, r, text, T, fuel) ==
    LET buf == bvec_tdata(w.v[r])
        bufsize == bvec_tsize(w.v[r], T)
        last_at == PTRADD(buf, (((bufsize + Word - 1) % Word) * T) % Word)
    IN  IF fuel = 0 THEN {undefined(w, "endless loop")}
        ELSE Then(Then(vsnprintf(w, buf, bufsize, text, T),
                       LAMBDA s : memcpy(s, last_at, Lit(Zero(T)), T)),
                  LAMBDA s :
                    LET l == strlen(s, Ptr(buf), T)
                    IN  IF l = -1 THEN {undefined(s, "invalid access")}
                        ELSE IF l < bufsize THEN {s}
                        ELSE bvec_assert(s, (bufsize * 2) % Word > bufsize,
                               "integer overflow",
                               LAMBDA t : Then(bvec_tresize(t, r, (bufsize * 2) % Word, T),
                                   LAMBDA u : VprintfLoop_offbyone(u, r, text, T, fuel - 1))))

\* the loop of bvec_vprintf / bvec_vwprintf; fuel counts the runs left
\* before the loop is taken to run forever
RECURSIVE VprintfLoop(_, _, _, _, _)
VprintfLoop(w, r, text, T, fuel) ==
    LET buf == bvec_tdata(w.v[r])
        bufsize == bvec_tsize(w.v[r], T)
        \* &buf[bufsize - 1]
        last_at == PTRADD(buf, (((bufsize + Word - 1) % Word) * T) % Word)
    IN  IF fuel = 0 THEN {undefined(w, "endless loop")}
        ELSE Then(Then(vsnprintf(w, buf, bufsize, text, T),
                       LAMBDA s : memcpy(s, last_at, Lit(Zero(T)), T)),
                  LAMBDA s :
                    LET l == strlen(s, Ptr(buf), T)
                    IN  IF l = -1 THEN {undefined(s, "invalid access")}
                        ELSE IF l < (bufsize + Word - 1) % Word THEN {s}
                        ELSE bvec_assert(s, (bufsize * 2) % Word > bufsize,
                               "integer overflow",
                               LAMBDA t : Then(bvec_tresize(t, r, (bufsize * 2) % Word, T),
                                   LAMBDA u : VprintfLoop(u, r, text, T, fuel - 1))))

\* bvec_vprintf / bvec_vwprintf, r the struct bvec it returns
bvec_vprintf(w, r, text, T) ==
    Then(Then(Then(bvec_ctor(w, r),
                   LAMBDA s : bvec_tresize(s, r, BVEC_DEFAULT_PRINTF_BUFSIZE, T)),
              LAMBDA s : VprintfLoop(s, r, text, T, MaxDoublings + 1)),
         LAMBDA s : bvec_strshrink(s, r, T))

\* bvec_printf / bvec_wprintf, r its local struct bvec
bvec_printf(w, i, r, text, T) ==
    Then(bvec_vprintf(w, r, text, T),
         LAMBDA s : Then(bvec_move(s, i, r), LAMBDA t : bvec_dtor(t, r)))

\* bvec_strcat_printf / bvec_wcscat_wprintf, t its local struct bvec
bvec_strcat_printf(w, i, t, text, T) ==
    Then(bvec_vprintf(w, t, text, T),
         LAMBDA s : Then(Then(bvec_getstr(s, t, T),
                              LAMBDA u : bvec_strcat(u, i, Ptr(bvec_tdata(u.v[t])), T)),
                         LAMBDA u : bvec_dtor(u, t)))

\* ---- the program: calls of the public interface on v[1], v[2] ----
Running == abort = "" /\ ub = ""

\* the bytes of block a inside some live buffer's [begin, end)
Used(w, lv, a) ==
    {k \in 1 .. Len(w.heap[a].mem) :
        \E i \in Bufs : lv[i] /\ w.v[i].begin.blk = a /\ k <= bvec_bsize(w.v[i])}

\* the values block a can hold as the call returns
Mems(w, lv, a) ==
    LET mem == w.heap[a].mem
        used == Used(w, lv, a)
        open == {k \in used : mem[k] = Indet}
    IN  {[k \in 1 .. Len(mem) |->
             IF k \in open THEN g[k] ELSE IF k \in used THEN mem[k] ELSE Indet]
            : g \in [open -> Byte]}

RECURSIVE Heaps(_, _, _, _)
Heaps(w, lv, h, as) ==
    IF as = {} THEN {h}
    ELSE LET a == CHOOSE x \in as : TRUE
         IN  UNION {Heaps(w, lv, [h EXCEPT ![a].mem = m], as \ {a})
                      : m \in Mems(w, lv, a)}

\* the worlds a call returning in w leaves, lv the buffers then live
Returned(w, lv) == {[w EXCEPT !.heap = h] : h \in Heaps(w, lv, w.heap, Addrs)}

NoCall == [op |-> "none", i |-> 0, j |-> 0, n |-> 0, data |-> NullData]
NoPre == [v |-> <<>>, heap |-> <<>>, live |-> <<>>]
\* cs2cs_alloc is not called
NoConv == [pc |-> "none", cstr |-> NullData, wstr |-> NullData,
           ret |-> NullData]
Idle == Running /\ last = NoCall

\* the call c, made while the caller is between calls, ends in one of the
\* worlds of S with the buffers lv live
Ends(c, S, lv) ==
    /\ Idle
    /\ \E r \in S : \E s \in Returned(r, lv) :
          /\ v' = s.v
          /\ heap' = s.heap
          /\ abort' = s.abort
          /\ ub' = s.ub
    /\ live' = lv
    /\ last' = c
    /\ pre' = [v |-> v, heap |-> heap, live |-> live]
    /\ UNCHANGED conv

Call(op, i, j, n, data) == [op |-> op, i |-> i, j |-> j, n |-> n, data |-> data]
Up(i) == [live EXCEPT ![i] = TRUE]
Down(i) == [live EXCEPT ![i] = FALSE]

\* the byte strings a caller passes with a length of n
Pattern(n, b) == [k \in 1 .. n |-> (b + k) % 2]
DataOf(n) ==
    IF n = 0 THEN {NullData, Lit(<<>>)}
    ELSE IF n <= MaxAlloc THEN {Lit(Pattern(n, b)) : b \in Byte}
    ELSE {Lit(Pattern(n, 0))}

Init ==
    /\ v = [i \in Bufs |-> [begin |-> NULL, end |-> NULL, capacity |-> NULL]]
    /\ heap = [a \in Addrs |-> DeadBlock]
    /\ live = [i \in Bufs |-> TRUE]
    /\ abort = ""
    /\ ub = ""
    /\ last = NoCall
    /\ pre = NoPre
    /\ conv = NoConv

Ctor(i) ==
    /\ ~live[i]
    /\ Ends(Call("ctor", i, 0, 0, NullData), bvec_ctor(World, i), Up(i))

BCtor(i, data, n) ==
    /\ ~live[i]
    /\ Ends(Call("bctor", i, 0, n, data), bvec_bctor(World, i, data, n), Up(i))

VCtor(i, j) ==
    /\ ~live[i] /\ live[j]
    /\ Ends(Call("vctor", i, j, 0, NullData), bvec_vctor(World, i, j), Up(i))

Dtor(i) ==
    /\ live[i]
    /\ Ends(Call("dtor", i, 0, 0, NullData), bvec_dtor(World, i), Down(i))

Clear(i) ==
    /\ live[i]
    /\ Ends(Call("clear", i, 0, 0, NullData), bvec_clear(World, i), live)

FClear(i) ==
    /\ live[i]
    /\ Ends(Call("fclear", i, 0, 0, NullData), bvec_fclear(World, i), live)

Copy(i, j) ==
    /\ live[i] /\ live[j]
    /\ Ends(Call("copy", i, j, 0, NullData), bvec_copy(World, i, j), live)

Move(i, j) ==
    /\ live[i] /\ live[j]
    /\ Ends(Call("move", i, j, 0, NullData), bvec_move(World, i, j), live)

Swap(i, j) ==
    /\ live[i] /\ live[j]
    /\ Ends(Call("swap", i, j, 0, NullData), bvec_swap(World, i, j), live)

Shrink(i) ==
    /\ live[i]
    /\ Ends(Call("shrink", i, 0, 0, NullData), bvec_shrink(World, i), live)

Reserve(i, n) ==
    /\ live[i]
    /\ Ends(Call("breserve", i, 0, n, NullData), bvec_breserve(World, i, n), live)

Resize(i, n) ==
    /\ live[i]
    /\ Ends(Call("bresize", i, 0, n, NullData), bvec_bresize(World, i, n), live)

Push(i, data, n) ==
    /\ live[i]
    /\ Ends(Call("bpush", i, 0, n, data), bvec_bpush(World, i, data, n), live)

\* dst and src must not be the same buffer
VPush(i, j) ==
    /\ live[i] /\ live[j] /\ i # j
    /\ Ends(Call("vpush", i, j, 0, NullData), bvec_vpush(World, i, j), live)

Pop(i, n) ==
    /\ live[i]
    /\ Ends(Call("bpop", i, 0, n, NullData), bvec_bpop(World, i, n), live)

\* the caller has looked at the result and goes on to its next call
Proceed ==
    /\ Running /\ last # NoCall
    /\ last' = NoCall
    /\ pre' = NoPre
    /\ UNCHANGED <<v, heap, live, abort, ub, conv>>

Next ==
    \/ \E i \in Bufs : Ctor(i)
    \/ \E i \in Bufs, n \in Size_t : \E data \in DataOf(n) : BCtor(i, data, n)
    \/ \E i, j \in Bufs : VCtor(i, j)
    \/ \E i \in Bufs : Dtor(i)
    \/ \E i \in Bufs : Clear(i)
    \/ \E i \in Bufs : FClear(i)
    \/ \E i, j \in Bufs : Copy(i, j)
    \/ \E i, j \in Bufs : Move(i, j)
    \/ \E i, j \in Bufs : Swap(i, j)
    \/ \E i \in Bufs : Shrink(i)
    \/ \E i \in Bufs, n \in Size_t : Reserve(i, n)
    \/ \E i \in Bufs, n \in Size_t : Resize(i, n)
    \/ \E i \in Bufs, n \in Size_t : \E data \in DataOf(n) : Push(i, data, n)
    \/ \E i, j \in Bufs : VPush(i, j)
    \/ \E i \in Bufs, n \in Size_t : Pop(i, n)
    \/ Proceed

Spec == Init /\ [][Next]_vars

\* ---- the program of the string functions ----
\* One buffer is in use at a time: v[1] as a char string or v[2] as a
\* wchar_t string.  The struct of the other serves as the local struct bvec
\* of the printf functions.
TypeOf(i) == IF i = 1 THEN sizeof_char ELSE sizeof_wchar_t
Local(i) == CHOOSE j \in Bufs : j # i

\* the sequences over S of n members, and of up to n members
SeqsOf(S, n) == [1 .. n -> S]
SeqsUpTo(S, n) == UNION {SeqsOf(S, k) : k \in 0 .. n}
RECURSIVE Flat(_)
Flat(ss) == IF ss = <<>> THEN <<>> ELSE Head(ss) \o Flat(Tail(ss))

\* the elements other than the terminator that the callers use
Chars(T) == IF T = sizeof_char THEN {<<1>>, <<2>>} ELSE {<<1, 0>>, <<0, 1>>}
\* the longest string a caller passes, in elements
MaxStr == 2
\* texts of up to n elements without a terminator
Texts(T, n) == {Flat(ss) : ss \in SeqsUpTo(Chars(T), n)}
\* the strings the callers pass: a text and its terminator
Strings(T) == {Lit(t \o Zero(T)) : t \in Texts(T, MaxStr)}
\* the texts a format and its arguments render to: the short ones, and one
\* that is longer than any buffer that can be doubled to
Rendered(T) ==
    Texts(T, MaxStr)
        \cup {Flat([k \in 1 .. MaxStr + 1 |-> CHOOSE c \in Chars(T) : TRUE])}
\* the arrays of whole elements, of any bytes, that fit an allocation
Arrays(T) == {Flat(ss) : ss \in SeqsUpTo(SeqsOf(Byte, T), MaxAlloc \div T)}

StrInit ==
    /\ v = [i \in Bufs |-> [begin |-> NULL, end |-> NULL, capacity |-> NULL]]
    /\ heap = [a \in Addrs |-> DeadBlock]
    /\ live \in {[i \in Bufs |-> i = k] : k \in Bufs}
    /\ abort = ""
    /\ ub = ""
    /\ last = NoCall
    /\ pre = NoPre
    /\ conv = NoConv

\* construct-from-bytes of an array of elements
ArrayCtor(i, a) ==
    /\ \A k \in Bufs : ~live[k]
    /\ BCtor(i, Lit(a), Len(a))

StrCtor(i, str) ==
    /\ \A k \in Bufs : ~live[k]
    /\ Ends(Call("strctor", i, 0, 0, str),
            bvec_strctor(World, i, str, TypeOf(i)), Up(i))

GetStr(i) ==
    /\ live[i]
    /\ Ends(Call("getstr", i, 0, 0, NullData),
            bvec_getstr(World, i, TypeOf(i)), live)

StrShrink(i) ==
    /\ live[i]
    /\ Ends(Call("strshrink", i, 0, 0, NullData),
            bvec_strshrink(World, i, TypeOf(i)), live)

StrCat(i, str) ==
    /\ live[i]
    /\ Ends(Call("strcat", i, 0, 0, str),
            bvec_strcat(World, i, str, TypeOf(i)), live)

StrNCat(i, str, n) ==
    /\ live[i]
    /\ Ends(Call("strncat", i, 0, n, str),
            bvec_strncat(World, i, str, n, TypeOf(i)), live)

StrPushBack(i, c) ==
    /\ live[i]
    /\ Ends(Call("strpushback", i, 0, 0, Lit(c)),
            bvec_strpushback(World, i, c, TypeOf(i)), live)

Printf(i, text) ==
    /\ live[i]
    /\ Ends(Call("printf", i, 0, 0, Lit(text)),
            bvec_printf(World, i, Local(i), text, TypeOf(i)), live)

StrCatPrintf(i, text) ==
    /\ live[i]
    /\ Ends(Call("strcat_printf", i, 0, 0, Lit(text)),
            bvec_strcat_printf(World, i, Local(i), text, TypeOf(i)), live)

StrNext ==
    \/ \E i \in Bufs : Dtor(i)
    \/ \E i \in Bufs : \E a \in Arrays(TypeOf(i)) : ArrayCtor(i, a)
    \/ \E i \in Bufs : \E str \in Strings(TypeOf(i)) : StrCtor(i, str)
    \/ \E i \in Bufs : Clear(i)
    \/ \E i \in Bufs : GetStr(i)
    \/ \E i \in Bufs : StrShrink(i)
    \/ \E i \in Bufs : \E str \in Strings(TypeOf(i)) : StrCat(i, str)
    \/ \E i \in Bufs : \E str \in Strings(TypeOf(i)), n \in 0 .. MaxStr + 1 :
          StrNCat(i, str, n)
    \/ \E i \in Bufs : \E c \in Chars(TypeOf(i)) \cup {Zero(TypeOf(i))} :
          StrPushBack(i, c)
    \/ \E i \in Bufs : \E text \in Rendered(TypeOf(i)) : Printf(i, text)
    \/ \E i \in Bufs : \E text \in Rendered(TypeOf(i)) : StrCatPrintf(i, text)
    \/ Proceed

StrSpec == StrInit /\ [][StrNext]_vars

\* ---- UTF-8 / UTF-16 conversion (wstr.c) ----
\* unsigned short and wchar_t are 16 bits wide, char 8.  unsigned is 32
\* bits wide and no value computed here is wider than 21 bits (c holds at
\* most 3 + 3 * 6 bits, or 0x3ff << 10 | 0x3ff plus 0x10000), so the
\* arithmetic on unsigned is exact.
RECURSIVE BitAnd(_, _)
BitAnd(a, b) ==
    IF a = 0 \/ b = 0 THEN 0
    ELSE (a % 2) * (b % 2) + 2 * BitAnd(a \div 2, b \div 2)
RECURSIVE BitOr(_, _)
BitOr(a, b) ==
    IF a = 0 THEN b
    ELSE IF b = 0 THEN a
    ELSE (IF a % 2 = 1 \/ b % 2 = 1 THEN 1 ELSE 0)
             + 2 * BitOr(a \div 2, b \div 2)
Shl(c, n) == c * 2 ^ n
Shr(c, n) == c \div 2 ^ n

\* a string in memory: its elements and the terminator
CString(s) == s \o <<0>>
\* cstr_pushback(&v, c) / wstr_pushback(&v, c): c converted to an element
\* of the given width in bits and appended
pushback(out, c, width) == Append(out, c % 2 ^ width)

\* lines 38-52: the bytes that encode c
Utf8Push(out, c) ==
    IF c < Shl(1, 7) THEN pushback(out, c, 8)
    ELSE IF c < Shl(1, 11)
    THEN pushback(pushback(out, BitOr(\hc0, Shr(c, 6)), 8),
                  BitOr(\h80, BitAnd(c, \h3f)), 8)
    ELSE IF c < Shl(1, 16)
    THEN pushback(pushback(pushback(out,
                  BitOr(\he0, Shr(c, 12)), 8),
                  BitOr(\h80, BitAnd(Shr(c, 6), \h3f)), 8),
                  BitOr(\h80, BitAnd(c, \h3f)), 8)
    ELSE pushback(pushback(pushback(pushback(out,
                  BitOr(\hf0, Shr(c, 18)), 8),
                  BitOr(\h80, BitAnd(Shr(c, 12), \h3f)), 8),
                  BitOr(\h80, BitAnd(Shr(c, 6), \h3f)), 8),
                  BitOr(\h80, BitAnd(c, \h3f)), 8)

\* while (*s) of utf16_to_utf8: mem is the string in memory, k the position
\* of s in it (from 1), out the elements pushed so far
RECURSIVE Utf16Loop(_, _, _)
Utf16Loop(mem, k, out) ==
    IF mem[k] = 0 THEN out
    ELSE LET w1 == mem[k] % 2 ^ 16
             w2 == mem[k + 1] % 2 ^ 16
             pair == /\ BitAnd(w1, \hf800) = \hd800
                     /\ BitAnd(w1, \hfc00) = \hd800
                     /\ BitAnd(w2, \hfc00) = \hdc00
             c == IF BitAnd(w1, \hf800) # \hd800 THEN w1
                  ELSE IF pair
                  THEN BitOr(Shl(BitAnd(w1, \h3ff), 10), BitAnd(w2, \h3ff))
                           + \h10000
                  ELSE \hfffd
         IN  Utf16Loop(mem, IF pair THEN k + 2 ELSE k + 1, Utf8Push(out, c))

\* utf16_to_utf8: s and the result are the elements before the terminator
utf16_to_utf8(s) == Utf16Loop(CString(s), 1, <<>>)

\* lines 65-77: the number of bytes to follow the byte b, and the bits it
\* gives to c
Lead(b) ==
    IF b <= \h7f THEN [n |-> 0, c |-> b]
    ELSE IF b < \hc2 THEN [n |-> 0, c |-> \hfffd]
    ELSE IF b <= \hdf THEN [n |-> 1, c |-> BitAnd(b, \h1f)]
    ELSE IF b <= \hef THEN [n |-> 2, c |-> BitAnd(b, \hf)]
    ELSE IF b <= \hf4 THEN [n |-> 3, c |-> BitAnd(b, \h7)]
    ELSE [n |-> 0, c |-> \hfffd]

\* mutant: any continuation byte may follow 0xed
High_loose(b, i) == IF i = 1 /\ b = \hf4 THEN \h8f ELSE \hbf

\* lines 79-87: the bounds l and h of byte number i after the first byte b
Low(b, i) ==
    IF i = 1 /\ b = \he0 THEN \ha0
    ELSE IF i = 1 /\ b = \hf0 THEN \h90
    ELSE \h80
High(b, i) ==
    IF i = 1 /\ b = \hed THEN \h9f
    ELSE IF i = 1 /\ b = \hf4 THEN \h8f
    ELSE \hbf

\* for (i = 1; i <= n; i++): first is the first byte of the sequence; the
\* result is c and the position of s after the loop
RECURSIVE Continuation(_, _, _, _, _, _)
Continuation(mem, k, first, i, n, c) ==
    IF i > n THEN [c |-> c, k |-> k]
    ELSE LET b == mem[k] % 2 ^ 8
         IN  IF b < Low(first, i) \/ b > High(first, i)
             THEN [c |-> \hfffd, k |-> k]
             ELSE Continuation(mem, k + 1, first, i + 1, n,
                               BitOr(Shl(c, 6), BitAnd(b, \h3f)))

\* lines 95-101: the code units that encode c
Utf16Push(out, c) ==
    IF c < \h10000 THEN pushback(out, c, 16)
    ELSE LET d == c - \h10000
         IN  pushback(pushback(out, BitOr(\hd800, Shr(d, 10)), 16),
                      BitOr(\hdc00, BitAnd(d, \h3ff)), 16)

\* while (*s) of utf8_to_utf16
RECURSIVE Utf8Loop(_, _, _)
Utf8Loop(mem, k, out) ==
    IF mem[k] = 0 THEN out
    ELSE LET b == mem[k] % 2 ^ 8
             r == Continuation(mem, k + 1, b, 1, Lead(b).n, Lead(b).c)
         IN  Utf8Loop(mem, r.k, Utf16Push(out, r.c))

\* utf8_to_utf16: s and the result are the elements before the terminator
utf8_to_utf16(s) == Utf8Loop(CString(s), 1, <<>>)

\* ---- the program of the conversions ----
\* cs2cs_alloc(cstr, CP_UTF8, CP_UTF8): wstr = cs2wcs_alloc(cstr, CP_UTF8)
\* is utf8_to_utf16(cstr), ret = wcs2cs_alloc(wstr, CP_UTF8) is
\* utf16_to_utf8(wstr), then free(wstr) and return ret.
\* the longest string passed, in bytes
MaxUtf == 4
\* the bytes of the strings passed: an ASCII letter, and the bytes at the
\* edges of the ranges the decoder tells apart
Utf8Bytes ==
    {\h41, \h80, \h8f, \h90, \h9f, \ha0, \hbd, \hbf,
     \hc1, \hc2, \he0, \hed, \hef, \hf0, \hf4, \hf5}

UtfInit ==
    /\ v = [i \in Bufs |-> [begin |-> NULL, end |-> NULL, capacity |-> NULL]]
    /\ heap = [a \in Addrs |-> DeadBlock]
    /\ live = [i \in Bufs |-> FALSE]
    /\ abort = ""
    /\ ub = ""
    /\ last = NoCall
    /\ pre = NoPre
    /\ \E n \in 0 .. MaxUtf : \E s \in SeqsOf(Utf8Bytes, n) :
          conv = [pc |-> "cs2wcs_alloc", cstr |-> Lit(s), wstr |-> NullData,
                  ret |-> NullData]

\* wstr = cs2wcs_alloc(cstr, src_cp) with src_cp = CP_UTF8
Cs2WcsAlloc ==
    /\ conv.pc = "cs2wcs_alloc"
    /\ conv' = [conv EXCEPT !.pc = "wcs2cs_alloc",
                            !.wstr = Lit(utf8_to_utf16(conv.cstr.bytes))]
    /\ UNCHANGED <<v, heap, live, abort, ub, last, pre>>

\* ret = wcs2cs_alloc(wstr, dst_cp) with dst_cp = CP_UTF8
Wcs2CsAlloc ==
    /\ conv.pc = "wcs2cs_alloc"
    /\ conv' = [conv EXCEPT !.pc = "done",
                            !.ret = Lit(utf16_to_utf8(conv.wstr.bytes))]
    /\ UNCHANGED <<v, heap, live, abort, ub, last, pre>>

\* done: free(wstr); return ret
Cs2CsDone ==
    /\ conv.pc = "done"
    /\ conv' = [conv EXCEPT !.pc = "return", !.wstr = NullData]
    /\ UNCHANGED <<v, heap, live, abort, ub, last, pre>>

UtfNext ==
    \/ Cs2WcsAlloc
    \/ Wcs2CsAlloc
    \/ Cs2CsDone

UtfSpec == UtfInit /\ [][UtfNext]_vars

\* ---- what a caller sees of a buffer ----
EmptyBvec == [begin |-> NULL, end |-> NULL, capacity |-> NULL]
Returns(op) == Running /\ last.op = op

\* the bytes of buffer i with the buffers vv and the heap hh
BytesIn(vv, hh, i) ==
    LET b == vv[i]
        mem == IF b.begin.blk \in Addrs THEN hh[b.begin.blk].mem ELSE <<>>
    IN  [k \in 1 .. bvec_bsize(b) |-> IF k <= Len(mem) THEN mem[k] ELSE Indet]
Bytes(i) == BytesIn(v, heap, i)
PreBytes(i) == BytesIn(pre.v, pre.heap, i)
Size(i) == bvec_bsize(v[i])
Cap(i) == bvec_bcapacity(v[i])
PreSize(i) == bvec_bsize(pre.v[i])
PreCap(i) == bvec_bcapacity(pre.v[i])
Other(i) == CHOOSE j \in Bufs : j # i

\* C1: while the process has not aborted, every live buffer has
\* begin <= end <= capacity, all three in one block (0 <= size <= capacity)
C1_Ordered ==
    Running =>
        \A i \in Bufs : live[i] =>
            /\ v[i].end.blk = v[i].begin.blk
            /\ v[i].capacity.blk = v[i].begin.blk
            /\ v[i].begin.off <= v[i].end.off
            /\ v[i].end.off <= v[i].capacity.off
            /\ v[i].begin.blk \in Addrs => Len(heap[v[i].begin.blk].mem) = Cap(i)

\* a resize that grew a buffer into a larger block and left room in it
C1_Witness ==
    /\ Returns("bresize")
    /\ PreCap(last.i) < Cap(last.i)
    /\ PreSize(last.i) > 0
    /\ Size(last.i) < Cap(last.i)
    /\ Size(last.i) > PreSize(last.i)

\* C2: after every call on a live buffer, begin is NULL exactly when the
\* capacity is zero
C2_NullIffZeroCapacity ==
    Running =>
        \A i \in Bufs : live[i] => ((v[i].begin = NULL) <=> (Cap(i) = 0))

\* C3: no two live buffers of non-zero capacity have the same begin, and
\* nothing is released that is not a live allocation
C3_Exclusive ==
    /\ ub = ""
    /\ Running =>
         \A i, j \in Bufs :
            (i # j /\ live[i] /\ live[j] /\ Cap(i) # 0 /\ Cap(j) # 0)
                => v[i].begin # v[j].begin

\* a move between two allocated buffers: one allocation released, one handed over
C3_Witness ==
    /\ Returns("move")
    /\ last.i # last.j
    /\ PreCap(last.i) # 0
    /\ PreCap(last.j) # 0
    /\ live[last.j]

\* C4: append-bytes of n bytes adds n to the size, keeps the old bytes as a
\* prefix and ends with the data; with n = 0 nothing changes at all;
\* append-buffer appends src's bytes and leaves src as it was
C4_Append ==
    /\ Returns("bpush") =>
         /\ Size(last.i) = PreSize(last.i) + last.n
         /\ last.n > 0 =>
               Bytes(last.i) = PreBytes(last.i) \o SubSeq(last.data.bytes, 1, last.n)
         /\ last.n = 0 => v = pre.v /\ heap = pre.heap
    /\ Returns("vpush") =>
         /\ Bytes(last.i) = PreBytes(last.i) \o PreBytes(last.j)
         /\ v[last.j] = pre.v[last.j]
         /\ Bytes(last.j) = PreBytes(last.j)

\* an append to a buffer that holds bytes and has to grow for it
C4_Witness ==
    /\ Returns("bpush")
    /\ PreSize(last.i) >= 1
    /\ last.n >= 2
    /\ PreCap(last.i) < PreSize(last.i) + last.n

\* the calls that change the one buffer they are made on
Mutators == {"bpush", "bresize", "bpop", "clear", "shrink", "fclear", "dtor"}

\* C5: copy(dst, src), dst # src, leaves src as it was and gives dst src's
\* bytes; and a mutating call on one buffer, also one that aborts, never
\* changes the size or the bytes of the other
C5_CopyIndependent ==
    /\ (Returns("copy") /\ last.i # last.j) =>
         /\ v[last.j] = pre.v[last.j]
         /\ Bytes(last.j) = PreBytes(last.j)
         /\ Bytes(last.i) = Bytes(last.j)
    /\ (last.op \in Mutators /\ pre.live[Other(last.i)]) =>
         /\ v[Other(last.i)] = pre.v[Other(last.i)]
         /\ Bytes(Other(last.i)) = PreBytes(Other(last.i))

\* a buffer whose bytes equalled the other's, as after a copy, is changed
\* and now differs from it
C5_Witness ==
    /\ Running
    /\ last.op \in {"bresize", "bpop", "clear"}
    /\ pre.live[Other(last.i)]
    /\ PreSize(last.i) >= 2
    /\ PreBytes(last.i) = PreBytes(Other(last.i))
    /\ Bytes(last.i) # Bytes(Other(last.i))

\* C6: move(dst, src), dst # src, releases dst's allocation, gives dst the
\* three pointers of src and leaves src empty and unallocated
C6_Move ==
    (Returns("move") /\ last.i # last.j) =>
        /\ v[last.i] = pre.v[last.j]
        /\ Bytes(last.i) = PreBytes(last.j)
        /\ v[last.j] = EmptyBvec
        /\ Size(last.j) = 0 /\ Cap(last.j) = 0
        /\ heap = IF pre.v[last.i].begin = NULL THEN pre.heap
                  ELSE [pre.heap EXCEPT ![pre.v[last.i].begin.blk] = DeadBlock]

\* a move of a buffer that holds bytes onto a buffer that has an allocation
C6_Witness ==
    /\ Returns("move")
    /\ last.i # last.j
    /\ PreCap(last.i) # 0
    /\ PreSize(last.j) >= 2

\* C7: copy, move and swap of a buffer with itself change neither a pointer
\* nor the heap; swap(a, b) exchanges the two structs, so a second swap
\* restores both
C7_SelfAndSwap ==
    /\ (Running /\ last.op \in {"copy", "move", "swap"} /\ last.i = last.j) =>
         v = pre.v /\ heap = pre.heap
    /\ (Returns("swap") /\ last.i # last.j) =>
         /\ v[last.i] = pre.v[last.j]
         /\ v[last.j] = pre.v[last.i]
         /\ heap = pre.heap
         /\ \A t \in bvec_swap(World, last.i, last.j) :
               t.v = pre.v /\ t.heap = pre.heap

\* a move of a buffer that holds bytes onto itself
C7_Witness ==
    /\ Returns("move")
    /\ last.i = last.j
    /\ Size(last.i) >= 2

\* C8: shrink-to-fit keeps the size, never raises the capacity and leaves
\* size <= capacity < 2 * size, or capacity 0 for size 0
C8_Shrink ==
    Returns("shrink") =>
        /\ Size(last.i) = PreSize(last.i)
        /\ Bytes(last.i) = PreBytes(last.i)
        /\ Cap(last.i) <= PreCap(last.i)
        /\ Size(last.i) > 0 =>
              Size(last.i) <= Cap(last.i) /\ Cap(last.i) < 2 * Size(last.i)
        /\ Size(last.i) = 0 => Cap(last.i) = 0

\* a shrink that halves the capacity at least once and ends on exactly
\* twice the size less one step
C8_Witness ==
    /\ Returns("shrink")
    /\ Size(last.i) = 2
    /\ PreCap(last.i) >= 4
    /\ Cap(last.i) = 2

\* the first of c, 2c, 4c, ... that is at least n
FirstDoubling(c, n) ==
    LET ds == {c * 2 ^ k : k \in 0 .. W}
    IN  CHOOSE x \in ds : x >= n /\ \A y \in ds : y >= n => x <= y

\* C9: reserve(v, n) that returns keeps the size and the bytes and leaves
\* the capacity at the first of c, 2c, 4c, ... that is at least n, c the
\* capacity before or, if that was zero, the default capacity
C9_Reserve ==
    Returns("breserve") =>
        /\ Size(last.i) = PreSize(last.i)
        /\ Bytes(last.i) = PreBytes(last.i)
        /\ Cap(last.i) >= last.n
        /\ Cap(last.i) = FirstDoubling(IF PreCap(last.i) # 0 THEN PreCap(last.i)
                                       ELSE BVEC_DEFAULT_CAPACITY, last.n)

\* one reserve on an unallocated buffer, two doublings above the default
C9_Witness ==
    /\ Returns("breserve")
    /\ pre.v[last.i] = EmptyBvec
    /\ last.n > 2 * BVEC_DEFAULT_CAPACITY
    /\ Cap(last.i) = 4 * BVEC_DEFAULT_CAPACITY

\* C10 as claimed: reserve(v, n) with n not above the capacity changes no
\* pointer and reallocates nothing, also for n = 0 on an unallocated buffer
C10_NoReallocClaimed ==
    (Returns("breserve") /\ last.n <= PreCap(last.i)) =>
        v = pre.v /\ heap = pre.heap

\* C10: reserve(v, n) with n not above a non-zero capacity changes no
\* pointer and reallocates nothing; on a buffer of capacity zero it
\* allocates the default capacity even for n = 0; and in either case a
\* second reserve(v, n) changes nothing and cannot abort
C10_NoRealloc ==
    Returns("breserve") =>
        /\ (last.n <= PreCap(last.i) /\ PreCap(last.i) # 0) =>
              v = pre.v /\ heap = pre.heap
        /\ PreCap(last.i) = 0 => Cap(last.i) >= BVEC_DEFAULT_CAPACITY
        /\ bvec_breserve(World, last.i, last.n) = {World}

\* a reserve of fewer bytes than an allocated buffer's capacity
C10_Witness ==
    /\ Returns("breserve")
    /\ last.n >= 1
    /\ last.n < PreCap(last.i)
    /\ PreSize(last.i) >= 1

\* whether doubling c until it is at least n passes 2^W
WouldWrap(c, n) == \E k \in 0 .. W : c * 2 ^ k < n /\ c * 2 ^ (k + 1) >= Word
\* the capacity the loop of reserve starts from, for the buffer as it was
StartCap(i) == IF PreCap(i) # 0 THEN PreCap(i) ELSE BVEC_DEFAULT_CAPACITY
Untouched == v = pre.v /\ heap = pre.heap
\* the size a call asks buffer last.i to grow to, as an unbounded integer
AskedSize ==
    CASE last.op = "bpush" -> PreSize(last.i) + last.n
      [] last.op = "vpush" -> PreSize(last.i) + PreSize(last.j)
      [] OTHER -> last.n

\* C11: an append whose old_size + n passes 2^W, and a reserve (called
\* directly, or by a growing resize or append) whose doubling passes 2^W,
\* end in fail() with the buffers and the heap as they were; and a growing
\* call that returns leaves the asked size and a capacity of at least it,
\* as integers that never wrapped
C11_OverflowAborts ==
    /\ (last.op \in {"bpush", "vpush"} /\ AskedSize >= Word) =>
          abort = "interger overflow" /\ Untouched
    /\ (/\ last.op \in {"bpush", "vpush", "bresize", "breserve"}
        /\ AskedSize < Word
        /\ last.op # "breserve" => AskedSize > PreSize(last.i)
        /\ WouldWrap(StartCap(last.i), AskedSize)) =>
          abort = "integer overflow" /\ Untouched
    /\ (Running /\ last.op \in {"bpush", "vpush", "bresize"}) =>
          Size(last.i) = AskedSize /\ Cap(last.i) >= AskedSize
    /\ Returns("breserve") =>
          Size(last.i) = PreSize(last.i) /\ Cap(last.i) >= AskedSize

\* an append to a buffer that holds bytes, of so many more that the sum wraps
C11_Witness ==
    /\ last.op = "bpush"
    /\ PreSize(last.i) >= 2
    /\ PreSize(last.i) + last.n >= Word
    /\ abort = "interger overflow"

\* no block was allocated, released or resized by the call
SameBlocks ==
    \A a \in Addrs : /\ heap[a].live = pre.heap[a].live
                     /\ Len(heap[a].mem) = Len(pre.heap[a].mem)

\* C12: truncate(v, n) with n <= size takes n from the size, keeps the
\* bytes before as they were and moves neither begin nor capacity; with
\* n > size it ends in fail() with nothing changed; and after an append of
\* n bytes the last n bytes are the ones appended, and truncate(v, n) gives
\* back the size and the bytes from before the append
C12_Truncate ==
    /\ (last.op = "bpop" /\ last.n <= PreSize(last.i)) =>
          /\ Running
          /\ Size(last.i) = PreSize(last.i) - last.n
          /\ Bytes(last.i) = SubSeq(PreBytes(last.i), 1, PreSize(last.i) - last.n)
          /\ v[last.i].begin = pre.v[last.i].begin
          /\ v[last.i].capacity = pre.v[last.i].capacity
          /\ SameBlocks
    /\ (last.op = "bpop" /\ last.n > PreSize(last.i)) =>
          abort = "interger underflow" /\ Untouched
    /\ (Returns("bpush") /\ last.n > 0) =>
          /\ SubSeq(Bytes(last.i), Size(last.i) - last.n + 1, Size(last.i))
                = SubSeq(last.data.bytes, 1, last.n)
          /\ \A t \in bvec_bpop(World, last.i, last.n) :
                /\ ~stopped(t)
                /\ bvec_bsize(t.v[last.i]) = PreSize(last.i)
                /\ BytesIn(t.v, t.heap, last.i) = PreBytes(last.i)

\* a truncate that takes some but not all bytes of a buffer
C12_Witness ==
    /\ Returns("bpop")
    /\ last.n >= 1
    /\ Size(last.i) >= 2
    /\ PreSize(last.i) = Size(last.i) + last.n

\* C13: destroy(v), here of a buffer that holds bytes, releases v's
\* allocation and leaves begin, end and capacity all NULL, so v no longer
\* refers to the released block
C13_DestroyResets ==
    (Returns("dtor") /\ PreSize(last.i) > 0) =>
        /\ v[last.i] = EmptyBvec
        /\ pre.v[last.i].begin # NULL => ~heap[pre.v[last.i].begin.blk].live

\* clear, truncate and a resize to no more than the size keep begin,
\* capacity and every block; append, reserve and resize never lower the
\* capacity, also when they abort
KeepsCapacity ==
    /\ (\/ last.op \in {"clear", "bpop"}
        \/ last.op = "bresize" /\ last.n <= PreSize(last.i)) =>
          /\ v[last.i].begin = pre.v[last.i].begin
          /\ v[last.i].capacity = pre.v[last.i].capacity
          /\ SameBlocks
    /\ last.op \in {"bpush", "vpush", "breserve", "bresize"} =>
          Cap(last.i) >= PreCap(last.i)
\* buffer k was live before and after the call and has less capacity now
Lowered(k) ==
    /\ last.op # "none"
    /\ pre.live[k] /\ live[k]
    /\ Cap(k) < PreCap(k)

\* C20 as claimed: the capacity of a buffer is lowered only by
\* shrink-to-fit or clear-and-free on it, or by a copy or move onto it or
\* a swap with it
C20_CapacityMonotoneClaimed ==
    /\ KeepsCapacity
    /\ \A k \in Bufs : Lowered(k) =>
          \/ last.op \in {"shrink", "fclear", "copy", "move"} /\ last.i = k
          \/ last.op = "swap" /\ k \in {last.i, last.j}

\* C20: clear, truncate and a resize to no more than the size keep the
\* capacity and the allocation; append, reserve and resize never lower the
\* capacity; the capacity of a buffer is lowered only by shrink-to-fit or
\* clear-and-free on it, by a copy onto it, by a swap with it, or by a move
\* of which it is the target or the source (the source is left with
\* capacity zero)
C20_CapacityMonotone ==
    /\ KeepsCapacity
    /\ \A k \in Bufs : Lowered(k) =>
          \/ last.op \in {"shrink", "fclear", "copy"} /\ last.i = k
          \/ last.op \in {"swap", "move"} /\ k \in {last.i, last.j}
    /\ (Returns("move") /\ last.i # last.j) => Cap(last.j) = 0

\* a move that leaves its source, which had an allocation, with capacity zero
C20_Witness ==
    /\ Returns("move")
    /\ last.i # last.j
    /\ Lowered(last.j)
    /\ PreSize(last.j) >= 1
    /\ Cap(last.i) = PreCap(last.j)

\* ---- what a caller sees of a string ----
\* the last element of an array of elements of T bytes
LastElem(bytes, T) == SubSeq(bytes, Len(bytes) - T + 1, Len(bytes))
\* whether an array ends with the terminator
Terminated(bytes, T) == Len(bytes) >= T /\ LastElem(bytes, T) = Zero(T)
\* the string a pointer to these bytes denotes: the elements before the
\* first terminator
CStr(bytes, T) ==
    LET l == ScanLen(bytes, 0, Len(bytes) \div T, T)
    IN  SubSeq(bytes, 1, l * T)

\* C14: get-as-string appends one terminator exactly when the buffer is
\* empty or does not end with the terminator, and else changes nothing;
\* after it the buffer ends with the terminator, and a further
\* get-as-string leaves the buffers and the heap as they are
C14_GetStrIdempotent ==
    Returns("getstr") =>
        LET i == last.i
            T == TypeOf(i)
        IN  /\ ~Terminated(PreBytes(i), T) =>
                  /\ Size(i) = PreSize(i) + T
                  /\ Bytes(i) = PreBytes(i) \o Zero(T)
            /\ Terminated(PreBytes(i), T) => Untouched
            /\ Terminated(Bytes(i), T)
            /\ bvec_getstr(World, i, T) = {World}

\* get-as-string on a buffer that holds elements and does not end with the
\* terminator
C14_Witness ==
    /\ Returns("getstr")
    /\ PreSize(last.i) >= 2 * TypeOf(last.i)
    /\ ~Terminated(PreBytes(last.i), TypeOf(last.i))
    /\ Size(last.i) > PreSize(last.i)

\* whether no element of the array is the terminator
NoZero(bytes, T) ==
    \A k \in 0 .. (Len(bytes) \div T) - 1 : Elem(bytes, k, T) # Zero(T)
\* the array without its last element
ButLast(bytes, T) == SubSeq(bytes, 1, Len(bytes) - T)
\* a construct-from-bytes of an array b followed by one terminator returned
FromTerminated ==
    /\ Returns("bctor")
    /\ last.n >= TypeOf(last.i)
    /\ Terminated(last.data.bytes, TypeOf(last.i))
\* get-as-string after that construct-from-bytes changes nothing
GetStrKeeps ==
    LET i == last.i
        b == ButLast(last.data.bytes, TypeOf(i))
    IN  /\ Size(i) = Len(b) + TypeOf(i)
        /\ Bytes(i) = last.data.bytes
        /\ bvec_getstr(World, i, TypeOf(i)) = {World}

\* C15 as claimed: for every array b, also one that holds a terminator,
\* get-as-string(construct-from-bytes(b and one terminator)) returns a
\* pointer to a string equal to b and leaves the size at length(b) + 1
C15_RoundTripClaimed ==
    FromTerminated =>
        /\ GetStrKeeps
        /\ CStr(Bytes(last.i), TypeOf(last.i))
              = ButLast(last.data.bytes, TypeOf(last.i))

\* C15: for every array b, get-as-string(construct-from-bytes(b and one
\* terminator)) leaves the size at length(b) + 1 and the elements b and
\* the terminator; the string at the pointer it returns is b if b holds no
\* terminator, and else only the elements of b before its first terminator
C15_RoundTrip ==
    FromTerminated =>
        LET T == TypeOf(last.i)
            b == ButLast(last.data.bytes, T)
            str == CStr(Bytes(last.i), T)
        IN  /\ GetStrKeeps
            /\ NoZero(b, T) => str = b
            /\ ~NoZero(b, T) =>
                  /\ Len(str) < Len(b)
                  /\ str = SubSeq(b, 1, Len(str))
                  /\ NoZero(str, T)
                  /\ Elem(b, Len(str) \div T, T) = Zero(T)

\* a construct-from-bytes of two elements that are no terminators and one
\* terminator
C15_Witness ==
    /\ FromTerminated
    /\ last.n = 3 * TypeOf(last.i)
    /\ NoZero(ButLast(last.data.bytes, TypeOf(last.i)), TypeOf(last.i))

\* whether the array is a string in a buffer: nothing, or elements that
\* are no terminators followed by exactly one terminator
IsString(bytes, T) ==
    bytes = <<>> \/ (Terminated(bytes, T) /\ NoZero(ButLast(bytes, T), T))
\* the elements of such a string
TextOf(bytes, T) == IF bytes = <<>> THEN <<>> ELSE ButLast(bytes, T)
\* the string a concatenating call is given: the elements of its argument
\* before the terminator, or the text its format renders to
Appended ==
    CASE last.op = "strcat" -> CStr(last.data.bytes, TypeOf(last.i))
      [] last.op = "strpushback" ->
            CStr(last.data.bytes \o Zero(TypeOf(last.i)), TypeOf(last.i))
      [] last.op = "strcat_printf" -> last.data.bytes

\* C16: a concat-string, push-char or format-append that returns, called on
\* an empty buffer or on one that holds a string and its one terminator,
\* leaves the elements of that string, then those of the appended string,
\* then exactly one terminator; so every sequence of such calls from an
\* empty buffer leaves the concatenation and one terminator
C16_Concatenation ==
    (/\ Running
     /\ last.op \in {"strcat", "strpushback", "strcat_printf"}
     /\ IsString(PreBytes(last.i), TypeOf(last.i))) =>
        LET i == last.i
            T == TypeOf(i)
            old == TextOf(PreBytes(i), T)
        IN  /\ Bytes(i) = old \o Appended \o Zero(T)
            /\ Size(i) = Len(old) + Len(Appended) + T
            /\ IsString(Bytes(i), T)
            /\ TextOf(Bytes(i), T) = old \o Appended

\* a format-append of a text onto a string of two elements
C16_Witness ==
    /\ Returns("strcat_printf")
    /\ IsString(PreBytes(last.i), TypeOf(last.i))
    /\ Len(TextOf(PreBytes(last.i), TypeOf(last.i))) = 2 * TypeOf(last.i)
    /\ Len(last.data.bytes) >= TypeOf(last.i)

\* the smaller of two numbers
Min(a, b) == IF a < b THEN a ELSE b

\* C17: concat-string-bounded(v, s, n) that returns, on any buffer, leaves
\* the elements the buffer held, less one terminator if it ended with one,
\* then the first min(n, length(s)) elements of s, then one terminator
C17_BoundedConcat ==
    Returns("strncat") =>
        LET i == last.i
            T == TypeOf(i)
            old == IF Terminated(PreBytes(i), T) THEN ButLast(PreBytes(i), T)
                   ELSE PreBytes(i)
            str == CStr(last.data.bytes, T)
            l == Min(last.n, Len(str) \div T)
        IN  /\ Bytes(i) = old \o SubSeq(str, 1, l * T) \o Zero(T)
            /\ Size(i) = Len(old) + l * T + T
            /\ IsString(PreBytes(i), T) => IsString(Bytes(i), T)

\* a bounded concatenation of the first element of a longer string onto a
\* buffer that holds a string
C17_Witness ==
    /\ Returns("strncat")
    /\ last.n = 1
    /\ Len(CStr(last.data.bytes, TypeOf(last.i))) = 2 * TypeOf(last.i)
    /\ PreSize(last.i) = 2 * TypeOf(last.i)
    /\ IsString(PreBytes(last.i), TypeOf(last.i))

\* C18: the loop of format-into ends, for every rendered text, in success or
\* in fail(): a formatting call never runs the loop more often than size_t
\* has bits, and never leaves the loop by undefined behaviour
C18_FormatTerminates ==
    last.op \in {"printf", "strcat_printf"} =>
        /\ ub = ""
        /\ Running \/ abort \in {"integer overflow", "interger overflow", "out of memory"}

\* C19: a bvec_printf that returns leaves in the destination the buffer
\* format-into returned: the rendered text and one terminator, shrunk to
\* fit, whatever the destination held, whose old allocation is released;
\* a format-append that returns leaves what the destination held, less a
\* trailing terminator, then the rendered text and one terminator; the
\* local buffer of either is left without an allocation
C19_FormatResult ==
    /\ Returns("printf") =>
          LET i == last.i
              T == TypeOf(i)
          IN  /\ Bytes(i) = last.data.bytes \o Zero(T)
              /\ Size(i) = Len(last.data.bytes) + T
              /\ Cap(i) >= Size(i) /\ Cap(i) < 2 * Size(i)
              /\ v[Local(i)] = EmptyBvec
              /\ \A a \in Addrs : heap[a].live <=> a = v[i].begin.blk
    /\ Returns("strcat_printf") =>
          LET i == last.i
              T == TypeOf(i)
              old == IF Terminated(PreBytes(i), T) THEN ButLast(PreBytes(i), T)
                     ELSE PreBytes(i)
          IN  /\ Bytes(i) = old \o last.data.bytes \o Zero(T)
              /\ Size(i) = Len(old) + Len(last.data.bytes) + T
              /\ \A a \in Addrs : heap[a].live <=> a = v[i].begin.blk

\* a bvec_printf, onto a buffer that holds elements, of a text of one
\* element less than the buffer after its first doubling
C19_Witness ==
    /\ Returns("printf")
    /\ Len(last.data.bytes) = (2 * BVEC_DEFAULT_PRINTF_BUFSIZE - 1) * TypeOf(last.i)
    /\ PreSize(last.i) >= 2 * TypeOf(last.i)

\* the index of the first terminator of an array that holds one
FirstZero(bytes, T) ==
    CHOOSE k \in 0 .. (Len(bytes) \div T) - 1 :
        /\ Elem(bytes, k, T) = Zero(T)
        /\ \A m \in 0 .. k - 1 : Elem(bytes, m, T) # Zero(T)

\* C21: shrink-to-exact-string on a buffer of n elements whose first
\* terminator is at index i < n sets the element count to i + 1, keeps the
\* elements 0 .. i as they were, and leaves a byte capacity of less than
\* twice the new byte size
C21_ShrinkToString ==
    Returns("strshrink") =>
        LET i == last.i
            T == TypeOf(i)
            b == PreBytes(i)
        IN  ~NoZero(b, T) =>
                LET z == FirstZero(b, T)
                IN  /\ bvec_tsize(v[i], T) = z + 1
                    /\ Size(i) = (z + 1) * T
                    /\ Bytes(i) = SubSeq(b, 1, (z + 1) * T)
                    /\ Size(i) <= Cap(i)
                    /\ Cap(i) < 2 * Size(i)

\* shrink-to-exact-string on a buffer with a terminator before its last
\* element: elements are dropped and the capacity goes down
C21_Witness ==
    /\ Returns("strshrink")
    /\ ~NoZero(PreBytes(last.i), TypeOf(last.i))
    /\ (FirstZero(PreBytes(last.i), TypeOf(last.i)) + 1) * TypeOf(last.i)
           < PreSize(last.i)
    /\ Size(last.i) < PreSize(last.i)
    /\ Cap(last.i) < PreCap(last.i)

\* ---- what UTF-8 and UTF-16 are (the Unicode Standard, section 3.9) ----
\* the code points that are encoded: all but the surrogates
IsScalar(cp) == cp \in 0 .. \h10ffff /\ cp \notin \hd800 .. \hdfff
\* the UTF-8 and the UTF-16 encoding of a code point
Utf8Of(cp) ==
    IF cp < 128 THEN <<cp>>
    ELSE IF cp < 2048 THEN <<192 + (cp \div 64), 128 + (cp % 64)>>
    ELSE IF cp < 65536
    THEN <<224 + (cp \div 4096), 128 + ((cp \div 64) % 64), 128 + (cp % 64)>>
    ELSE <<240 + (cp \div 262144), 128 + ((cp \div 4096) % 64),
           128 + ((cp \div 64) % 64), 128 + (cp % 64)>>
Utf16Of(cp) ==
    IF cp < 65536 THEN <<cp>>
    ELSE <<55296 + ((cp - 65536) \div 1024), 56320 + ((cp - 65536) % 1024)>>
\* the number a byte sequence of the shape of an encoding stands for
IsTail(b) == b \in 128 .. 191
ValueOf(q) ==
    CASE Len(q) = 1 -> q[1]
      [] Len(q) = 2 -> (q[1] - 192) * 64 + (q[2] - 128)
      [] Len(q) = 3 -> (q[1] - 224) * 4096 + (q[2] - 128) * 64 + (q[3] - 128)
      [] Len(q) = 4 -> (q[1] - 240) * 262144 + (q[2] - 128) * 4096
                           + (q[3] - 128) * 64 + (q[4] - 128)
\* whether q is the encoding of one code point
WellFormedChar(q) ==
    /\ Len(q) \in 1 .. 4
    /\ q[1] \in (IF Len(q) = 1 THEN 0 .. 127
                 ELSE IF Len(q) = 2 THEN 192 .. 223
                 ELSE IF Len(q) = 3 THEN 224 .. 239 ELSE 240 .. 247)
    /\ \A k \in 2 .. Len(q) : IsTail(q[k])
    /\ IsScalar(ValueOf(q))
    /\ Utf8Of(ValueOf(q)) = q
\* the length of the encoding s begins with, 0 if it begins with none
CharLen(s) ==
    IF \E n \in 1 .. Min(4, Len(s)) : WellFormedChar(SubSeq(s, 1, n))
    THEN CHOOSE n \in 1 .. Min(4, Len(s)) : WellFormedChar(SubSeq(s, 1, n))
    ELSE 0
\* whether s is well-formed UTF-8
RECURSIVE WellFormed(_)
WellFormed(s) ==
    \/ s = <<>>
    \/ /\ CharLen(s) > 0
       /\ WellFormed(SubSeq(s, CharLen(s) + 1, Len(s)))
\* whether q begins an encoding: it is enough to try the least and the
\* greatest continuation bytes after it
Begins(q) ==
    \E t \in SeqsUpTo({128, 191}, 3) : t # <<>> /\ WellFormedChar(q \o t)
\* the length of the malformed sequence s begins with: the longest start
\* of s that begins an encoding, and one byte if there is none
MalformedLen(s) ==
    LET ks == {k \in 1 .. Min(3, Len(s)) : Begins(SubSeq(s, 1, k))}
    IN  IF ks = {} THEN 1 ELSE CHOOSE k \in ks : \A m \in ks : m <= k
\* the UTF-16 of s with each malformed sequence replaced by U+FFFD
RECURSIVE Decoded(_)
Decoded(s) ==
    IF s = <<>> THEN <<>>
    ELSE IF CharLen(s) > 0
    THEN Utf16Of(ValueOf(SubSeq(s, 1, CharLen(s))))
             \o Decoded(SubSeq(s, CharLen(s) + 1, Len(s)))
    ELSE <<\hfffd>> \o Decoded(SubSeq(s, MalformedLen(s) + 1, Len(s)))
\* whether every surrogate of the code units u is one of a pair
IsHigh(x) == x \in \hd800 .. \hdbff
IsLow(x) == x \in \hdc00 .. \hdfff
NoUnpaired(u) ==
    \A k \in 1 .. Len(u) :
        /\ IsHigh(u[k]) => k < Len(u) /\ IsLow(u[k + 1])
        /\ IsLow(u[k]) => k > 1 /\ IsHigh(u[k - 1])

\* C22: for every byte string s without zero bytes, utf8_to_utf16(s) has
\* no unpaired surrogate and is the UTF-16 of s with each malformed
\* sequence replaced by U+FFFD; and when s is well-formed UTF-8,
\* utf16_to_utf8(utf8_to_utf16(s)) is s
C22_UtfRoundTrip ==
    /\ conv.pc \in {"wcs2cs_alloc", "done"} =>
           /\ NoUnpaired(conv.wstr.bytes)
           /\ conv.wstr.bytes = Decoded(conv.cstr.bytes)
    /\ conv.pc = "done" /\ WellFormed(conv.cstr.bytes) =>
           conv.ret.bytes = conv.cstr.bytes

\* a well-formed string of a 4-byte encoding has been decoded to a
\* surrogate pair and encoded back
C22_Witness ==
    /\ conv.pc = "done"
    /\ WellFormed(conv.cstr.bytes)
    /\ Len(conv.cstr.bytes) = 4
    /\ Len(conv.wstr.bytes) = 2
    /\ IsHigh(conv.wstr.bytes[1])
    /\ conv.ret = conv.cstr

=============================================================================
